---------------------------- MODULE Spec2Model ----------------------------
(***************************************************************************)
(* openedx_tagging/core/tagging/models/utils.py: the SQL text and the      *)
(* bound parameters that ConcatNull and StringAgg emit per database        *)
(* backend.                                                                *)
(*                                                                         *)
(* Text (SQL, templates, backend names, delimiters) is a sequence of       *)
(* one-character strings, so that "in", lower(), repr() and the "%"        *)
(* formatting are computed character by character as Python computes      *)
(* them.  Flat renders such a sequence as one string.                      *)
(***************************************************************************)
EXTENDS Integers, Sequences, FiniteSets, TLC

VARIABLES
    ambient,     \* db_connection.vendor, the backend of the default connection
    cls,         \* the class attributes of StringAgg (shared by all instances)
    pc,          \* per caller: "idle", "built" or "failed"
    req,         \* per caller: the arguments given to StringAgg(...)
    inst,        \* per caller: the instance's attributes (self.__dict__)
    emits,       \* per caller: the emissions so far, <<[vendor, result]>>
    cn           \* the ConcatNull call in progress

vars == <<ambient, cls, pc, req, inst, emits, cn>>

(***************************************************************************)
(* Bounds of the model.                                                    *)
(***************************************************************************)
MaxDelimLen == 2
MaxEmits == 2
MaxArgs == 3

(***************************************************************************)
(* Text constants.                                                         *)
(***************************************************************************)
Vendor_postgresql ==
    << "p", "o", "s", "t", "g", "r", "e", "s", "q", "l" >>
Vendor_mysql ==
    << "m", "y", "s", "q", "l" >>
Vendor_sqlite ==
    << "s", "q", "l", "i", "t", "e" >>
Vendor_PostgreSQL ==
    << "P", "o", "s", "t", "g", "r", "e", "S", "Q", "L" >>

\* connection.vendor of the backends an emission can run against
Vendors ==
    { Vendor_postgresql, Vendor_mysql, Vendor_sqlite, Vendor_PostgreSQL }

GROUP_CONCAT ==
    << "G", "R", "O", "U", "P", "_", "C", "O", "N", "C", "A", "T" >>
STRING_AGG ==
    << "S", "T", "R", "I", "N", "G", "_", "A", "G", "G" >>
CONCAT ==
    << "C", "O", "N", "C", "A", "T" >>
\* '%(function)s(%(distinct)s%(expressions)s)'
GenericTemplate ==
    << "%", "(", "f", "u", "n", "c", "t", "i", "o", "n", ")", "s", "(",
       "%", "(", "d", "i", "s", "t", "i", "n", "c", "t", ")", "s",
       "%", "(", "e", "x", "p", "r", "e", "s", "s", "i", "o", "n", "s", ")", "s",
       ")" >>
\* '%(function)s(%(distinct)s%(expressions)s, %(delimiter)s)'
PostgresTemplate ==
    << "%", "(", "f", "u", "n", "c", "t", "i", "o", "n", ")", "s", "(",
       "%", "(", "d", "i", "s", "t", "i", "n", "c", "t", ")", "s",
       "%", "(", "e", "x", "p", "r", "e", "s", "s", "i", "o", "n", "s", ")", "s",
       ",", " ",
       "%", "(", "d", "e", "l", "i", "m", "i", "t", "e", "r", ")", "s",
       ")" >>
\* Func.template, '%(function)s(%(expressions)s)'
FuncTemplate ==
    << "%", "(", "f", "u", "n", "c", "t", "i", "o", "n", ")", "s", "(",
       "%", "(", "e", "x", "p", "r", "e", "s", "s", "i", "o", "n", "s", ")", "s",
       ")" >>
\* "%(expressions)s"
SqliteTemplate ==
    << "%", "(", "e", "x", "p", "r", "e", "s", "s", "i", "o", "n", "s", ")", "s" >>
DISTINCT_ ==
    << "D", "I", "S", "T", "I", "N", "C", "T", " " >>
CastText ==
    << ")", ":", ":", "T", "E", "X", "T" >>
PipeJoiner ==
    << " ", "|", "|", " " >>
CommaJoiner ==
    << ",", " " >>

(***************************************************************************)
(* Python's string operations.                                             *)
(***************************************************************************)
RECURSIVE Flat(_)
Flat(s) ==
    IF s = <<>> THEN "" ELSE Head(s) \o Flat(Tail(s))

\* str.lower(), on the letters that occur in backend names
LowerChar(c) ==
    CASE c = "P" -> "p"
      [] c = "S" -> "s"
      [] c = "Q" -> "q"
      [] c = "L" -> "l"
      [] OTHER -> c

Lower(s) ==
    [i \in 1..Len(s) |-> LowerChar(s[i])]

\* sub in s
Contains(s, sub) ==
    \E i \in 0..(Len(s) - Len(sub)) :
        \A k \in 1..Len(sub) : s[i + k] = sub[k]

StartsWith(s, pre) ==
    /\ Len(pre) <= Len(s)
    /\ \A k \in 1..Len(pre) : s[k] = pre[k]

\* repr(str): double quotes when the string holds ' and no ", single quotes
\* otherwise; the quote in use and the backslash are backslash-escaped, a tab
\* is written \t.
ReprQuote(s) ==
    IF Contains(s, <<"'">>) /\ ~Contains(s, <<"\"">>) THEN "\"" ELSE "'"

ReprChar(c, quote) ==
    CASE c = quote -> << "\\", c >>
      [] c = "\\" -> << "\\", "\\" >>
      [] c = "\t" -> << "\\", "t" >>
      [] OTHER -> << c >>

RECURSIVE ReprBody(_, _)
ReprBody(s, quote) ==
    IF s = <<>> THEN <<>>
    ELSE ReprChar(Head(s), quote) \o ReprBody(Tail(s), quote)

Repr(s) ==
    << ReprQuote(s) >> \o ReprBody(s, ReprQuote(s)) \o << ReprQuote(s) >>

\* The place of the first ")" of t at or after i (0: none).
RECURSIVE CloseParen(_, _)
CloseParen(t, i) ==
    IF i > Len(t) THEN 0
    ELSE IF t[i] = ")" THEN i
    ELSE CloseParen(t, i + 1)

\* The keys %(key)s a template names.
RECURSIVE TemplateKeys(_)
TemplateKeys(t) ==
    IF Len(t) < 2 THEN {}
    ELSE IF t[1] = "%" /\ t[2] = "(" /\ CloseParen(t, 3) > 0
         THEN { Flat(SubSeq(t, 3, CloseParen(t, 3) - 1)) }
              \cup TemplateKeys(SubSeq(t, CloseParen(t, 3) + 2, Len(t)))
         ELSE TemplateKeys(Tail(t))

\* template % data, for a template whose keys data has: every %(key)s is
\* replaced by str(data[key]), everything else is copied.
RECURSIVE PercentFormat(_, _)
PercentFormat(t, data) ==
    IF t = <<>> THEN <<>>
    ELSE IF Len(t) >= 2 /\ t[1] = "%" /\ t[2] = "(" /\ CloseParen(t, 3) > 0
         THEN data[Flat(SubSeq(t, 3, CloseParen(t, 3) - 1))]
              \o PercentFormat(SubSeq(t, CloseParen(t, 3) + 2, Len(t)), data)
         ELSE << Head(t) >> \o PercentFormat(Tail(t), data)

\* joiner.join(parts)
RECURSIVE Join(_, _)
Join(joiner, parts) ==
    IF parts = <<>> THEN <<>>
    ELSE IF Len(parts) = 1 THEN parts[1]
    ELSE parts[1] \o joiner \o Join(joiner, Tail(parts))

\* params.extend(arg_params) over all the arguments, in order
RECURSIVE Extend(_)
Extend(lists) ==
    IF lists = <<>> THEN <<>> ELSE Head(lists) \o Extend(Tail(lists))

\* d1 | d2 of two dicts: the keys of d2 win.
Merge(d1, d2) ==
    [k \in DOMAIN d1 \cup DOMAIN d2 |-> IF k \in DOMAIN d2 THEN d2[k] ELSE d1[k]]

\* The empty dict.
EmptyDict ==
    [k \in {} |-> <<>>]

(***************************************************************************)
(* Expressions: opaque to this file.  An expression is given by what the   *)
(* query compiler compiles it to, and by the value it has in the row the   *)
(* query is evaluated on.                                                  *)
(***************************************************************************)
Null == [null |-> TRUE]
Str(s) == [null |-> FALSE, str |-> s]

\* F("x"): a column holding 'en'
ExprCol ==
    [sql |-> << "x" >>, params |-> <<>>, value |-> Str(<< "e", "n" >>)]
\* Value("a"): a bound parameter
ExprValue ==
    [sql |-> << "%", "s" >>, params |-> << "a" >>, value |-> Str(<< "a" >>)]
\* Value(None): the literal NULL
ExprNullValue ==
    [sql |-> << "N", "U", "L", "L" >>, params |-> <<>>, value |-> Null]

\* compiler.compile(expression) of a source expression
Compile(e) ==
    [sql |-> e.sql, params |-> e.params]


(***************************************************************************)
(* Objects.  An instance is its attribute dictionary; an attribute the     *)
(* instance does not hold is looked up on its class.                       *)
(***************************************************************************)
GetAttr(self, klass, name) ==
    IF name \in DOMAIN self THEN self[name] ELSE klass[name]

Without(d, keys) ==
    [k \in DOMAIN d \ keys |-> d[k]]

\* StringAgg's class attributes: function and template as the class body sets
\* them, arg_joiner and allow_distinct as inherited from Func and Aggregate.
StringAggClass ==
    [function |-> GROUP_CONCAT,
     template |-> GenericTemplate,
     arg_joiner |-> CommaJoiner,
     allow_distinct |-> FALSE]

\* ConcatNull's class attributes: function as the class body sets it, template
\* and arg_joiner as inherited from Func.
ConcatNullClass ==
    [function |-> CONCAT,
     template |-> FuncTemplate,
     arg_joiner |-> CommaJoiner]

\* A call's outcome: the (sql, params) pair returned, or the exception raised.
Returned(sql, params) ==
    [status |-> "ok", sql |-> sql, params |-> params]

Raised(exc) ==
    [status |-> exc, sql |-> <<>>, params |-> <<>>]

(***************************************************************************)
(* The base classes' methods that the file calls through super().          *)
(***************************************************************************)
\* Func.__init__(*expressions, output_field=None, **extra)
Func_init(self, expressions, kwargs) ==
    Merge(self,
          [source_expressions |-> expressions,
           extra |-> Without(kwargs, {"output_field"})])

\* Aggregate.__init__(*expressions, distinct=False, filter=None, **extra):
\* raises TypeError for a truthy distinct unless the class allows distinct.
Aggregate_init(self, klass, expressions, kwargs) ==
    LET distinct == IF "distinct" \in DOMAIN kwargs THEN kwargs.distinct ELSE <<>>
    IN  IF distinct # <<>> /\ ~klass.allow_distinct
        THEN [raised |-> "TypeError", self |-> self]
        ELSE [raised |-> "",
              self |-> Func_init(Merge(self, [distinct |-> distinct]),
                                 expressions,
                                 Without(kwargs, {"distinct"}))]

\* Func.as_sql(compiler, connection, template=None, arg_joiner=None,
\* **extra_context); opts holds the template and arg_joiner arguments given.
Func_as_sql(self, klass, opts, extra_context) ==
    LET n == Len(self.source_expressions)
        compiled == [i \in 1..n |-> Compile(self.source_expressions[i])]
        sql_parts == [i \in 1..n |-> compiled[i].sql]
        params == Extend([i \in 1..n |-> compiled[i].params])
        data0 == Merge(self.extra, extra_context)
        data1 == IF "function" \in DOMAIN data0 THEN data0
                 ELSE Merge(data0, [function |-> GetAttr(self, klass, "function")])
        template == IF "template" \in DOMAIN opts THEN opts.template
                    ELSE IF "template" \in DOMAIN data1 THEN data1.template
                    ELSE GetAttr(self, klass, "template")
        arg_joiner == IF "arg_joiner" \in DOMAIN opts THEN opts.arg_joiner
                      ELSE IF "arg_joiner" \in DOMAIN data1 THEN data1.arg_joiner
                      ELSE GetAttr(self, klass, "arg_joiner")
        joined == Join(arg_joiner, sql_parts)
        data == Merge(data1, [expressions |-> joined, field |-> joined])
    IN  IF TemplateKeys(template) \subseteq DOMAIN data
        THEN Returned(PercentFormat(template, data), params)
        ELSE Raised("KeyError")

\* Aggregate.as_sql: sets extra_context["distinct"] from self.distinct, then
\* Func.as_sql.
Aggregate_as_sql(self, klass, extra_context) ==
    Func_as_sql(self, klass, EmptyDict,
                Merge(extra_context,
                      [distinct |-> IF self.distinct # <<>> THEN DISTINCT_ ELSE <<>>]))

(***************************************************************************)
(* ConcatNull                                                              *)
(***************************************************************************)
\* ConcatNull(*expressions): Func.__init__ with no keyword arguments.
ConcatNull_init(expressions) ==
    Func_init(EmptyDict, expressions, EmptyDict)

\* as_sqlite without its template argument: the joiner changes, the CONCAT(...)
\* wrapper stays.
ConcatNull_as_sqlite_KeepsWrapper(self, klass) ==
    [result |-> Func_as_sql(self, klass, [arg_joiner |-> PipeJoiner], EmptyDict),
     self |-> self]

\* ConcatNull.as_sqlite
ConcatNull_as_sqlite(self, klass) ==
    [result |-> Func_as_sql(self, klass,
                            [template |-> SqliteTemplate, arg_joiner |-> PipeJoiner],
                            EmptyDict),
     self |-> self]

\* ConcatNull.as_sql, inherited from Func
ConcatNull_as_sql(self, klass) ==
    [result |-> Func_as_sql(self, klass, EmptyDict, EmptyDict),
     self |-> self]

\* compiler.compile(node) of a ConcatNull: the method named as_<vendor> when the
\* node has one, as_sql otherwise.
ConcatNull_compile(self, klass, vendor) ==
    IF vendor = Vendor_sqlite
    THEN ConcatNull_as_sqlite(self, klass)
    ELSE ConcatNull_as_sql(self, klass)

(***************************************************************************)
(* StringAgg                                                               *)
(***************************************************************************)
\* 'postgresql' in vendor, without lower()
IsPostgres_CaseSensitive(vendor) ==
    Contains(vendor, Vendor_postgresql)

\* 'postgresql' in vendor.lower()
IsPostgres(vendor) ==
    Contains(Lower(vendor), Vendor_postgresql)

\* __init__ assigning function and template on the class (StringAgg.function =
\* ...) instead of on the instance.
StringAgg_init_WritesClass(klass, expression, distinct, delimiter, vendor) ==
    LET self0 == [delimiter |-> delimiter]
        distinct_str == IF distinct THEN DISTINCT_ ELSE <<>>
        extra0 == [distinct |-> distinct_str, output_field |-> "CharField"]
        pg == IsPostgres(vendor)
        klass1 == IF pg
                  THEN Merge(klass, [function |-> STRING_AGG,
                                     template |-> PostgresTemplate])
                  ELSE klass
        extra1 == IF pg THEN Merge(extra0, [delimiter |-> delimiter]) ELSE extra0
        made == Aggregate_init(self0, klass1, << expression >>, extra1)
    IN  [klass |-> klass1, raised |-> made.raised, self |-> made.self]

\* StringAgg.__init__(expression, distinct, delimiter) under the ambient
\* backend vendor: the class attributes afterwards, the exception raised if
\* any, and the instance.
StringAgg_init(klass, expression, distinct, delimiter, vendor) ==
    LET self0 == [delimiter |-> delimiter]
        distinct_str == IF distinct THEN DISTINCT_ ELSE <<>>
        extra0 == [distinct |-> distinct_str, output_field |-> "CharField"]
        pg == IsPostgres(vendor)
        self1 == IF pg
                 THEN Merge(self0, [function |-> STRING_AGG,
                                    template |-> PostgresTemplate])
                 ELSE self0
        extra1 == IF pg THEN Merge(extra0, [delimiter |-> delimiter]) ELSE extra0
        made == Aggregate_init(self1, klass, << expression >>, extra1)
    IN  [klass |-> klass, raised |-> made.raised, self |-> made.self]

\* as_sql passing the delimiter as a bound parameter on PostgreSQL.
StringAgg_as_sql_BindsDelimiter(self, klass, vendor) ==
    IF IsPostgres(vendor)
    THEN LET c == Compile(self.source_expressions[1])
             expressions_sql == << "(" >> \o c.sql \o CastText
         IN  [result |-> Returned(GetAttr(self, klass, "function") \o << "(" >>
                                  \o expressions_sql \o << ",", " ", "%", "s", ")" >>,
                                  c.params \o << Flat(self.delimiter) >>),
              self |-> self]
    ELSE [result |-> Aggregate_as_sql(self, klass, EmptyDict),
          self |-> self]

\* as_sql storing the quoted delimiter back on the instance on PostgreSQL.
StringAgg_as_sql_StoresQuoted(self, klass, vendor) ==
    IF IsPostgres(vendor)
    THEN LET c == Compile(self.source_expressions[1])
             expressions_sql == << "(" >> \o c.sql \o CastText
         IN  [result |-> Returned(GetAttr(self, klass, "function") \o << "(" >>
                                  \o expressions_sql \o << ",", " " >>
                                  \o Repr(self.delimiter) \o << ")" >>,
                                  c.params),
              self |-> Merge(self, [delimiter |-> Repr(self.delimiter)])]
    ELSE [result |-> Aggregate_as_sql(self, klass, EmptyDict),
          self |-> self]

\* StringAgg.as_sql(compiler, connection) against a connection of the given
\* vendor: what it returns, and the instance afterwards.
StringAgg_as_sql(self, klass, vendor) ==
    IF IsPostgres(vendor)
    THEN LET c == Compile(self.source_expressions[1])
             expressions_sql == << "(" >> \o c.sql \o CastText
         IN  [result |-> Returned(GetAttr(self, klass, "function") \o << "(" >>
                                  \o expressions_sql \o << ",", " " >>
                                  \o Repr(self.delimiter) \o << ")" >>,
                                  c.params),
              self |-> self]
    ELSE [result |-> Aggregate_as_sql(self, klass, EmptyDict),
          self |-> self]

(***************************************************************************)
(* Inputs.                                                                 *)
(***************************************************************************)
\* The characters delimiters are made of: the CSV separator ";", both quotes
\* and the backslash.
DelimChars ==
    { ";", "'", "\"", "\\" }

\* The default delimiter "," and every string of DelimChars up to MaxDelimLen.
Delimiters ==
    { << "," >> } \cup UNION { [1..n -> DelimChars] : n \in 0..MaxDelimLen }

AggExpressions ==
    { ExprCol, ExprValue }

ConcatExpressions ==
    { ExprCol, ExprValue, ExprNullValue }

ConcatArgs ==
    UNION { [1..n -> ConcatExpressions] : n \in 1..MaxArgs }

\* The inputs of the run with two callers.
ConcVendors ==
    { Vendor_postgresql, Vendor_mysql, Vendor_sqlite }

ConcDelimiters ==
    { << "," >>, << ";" >> }

ConcExpressions ==
    { ExprCol }

(***************************************************************************)
(* The state machine.                                                      *)
(***************************************************************************)
NoRequest ==
    [expression |-> ExprCol, distinct |-> FALSE, delimiter |-> <<>>]

ConcatIdle ==
    [pc |-> "idle", args |-> <<>>, self |-> EmptyDict, emits |-> <<>>]

InitWith(callers, vendors) ==
    /\ ambient \in vendors
    /\ cls = StringAggClass
    /\ pc = [t \in callers |-> "idle"]
    /\ req = [t \in callers |-> NoRequest]
    /\ inst = [t \in callers |-> EmptyDict]
    /\ emits = [t \in callers |-> <<>>]
    /\ cn = ConcatIdle

\* Caller t evaluates StringAgg(expression, distinct=..., delimiter=...).
Construct(t, expressions, delimiters) ==
    /\ pc[t] = "idle"
    /\ cn.pc = "idle"
    /\ \E e \in expressions, distinct \in BOOLEAN, delimiter \in delimiters :
          LET r == StringAgg_init(cls, e, distinct, delimiter, ambient)
          IN  /\ cls' = r.klass
              /\ pc' = [pc EXCEPT ![t] = IF r.raised = "" THEN "built" ELSE "failed"]
              /\ inst' = [inst EXCEPT ![t] = IF r.raised = "" THEN r.self ELSE EmptyDict]
              /\ req' = [req EXCEPT ![t] = [expression |-> e,
                                            distinct |-> distinct,
                                            delimiter |-> delimiter]]
    /\ UNCHANGED <<ambient, emits, cn>>

\* The query compiler calls as_sql on caller t's instance against a connection.
Emit(t, vendors) ==
    /\ pc[t] = "built"
    /\ Len(emits[t]) < MaxEmits
    /\ \E v \in vendors :
          LET r == StringAgg_as_sql(inst[t], cls, v)
          IN  /\ inst' = [inst EXCEPT ![t] = r.self]
              /\ emits' = [emits EXCEPT ![t] =
                              Append(@, [vendor |-> v, result |-> r.result])]
    /\ UNCHANGED <<ambient, cls, pc, req, cn>>

\* Caller t drops its instance (or gives up after the exception).
Discard(t) ==
    /\ pc[t] \in {"built", "failed"}
    /\ pc' = [pc EXCEPT ![t] = "idle"]
    /\ req' = [req EXCEPT ![t] = NoRequest]
    /\ inst' = [inst EXCEPT ![t] = EmptyDict]
    /\ emits' = [emits EXCEPT ![t] = <<>>]
    /\ UNCHANGED <<ambient, cls, cn>>

\* The caller evaluates ConcatNull(*args).
ConcatConstruct ==
    /\ cn.pc = "idle"
    /\ \A t \in DOMAIN pc : pc[t] = "idle"
    /\ \E args \in ConcatArgs :
          cn' = [pc |-> "built", args |-> args, self |-> ConcatNull_init(args),
                 emits |-> <<>>]
    /\ UNCHANGED <<ambient, cls, pc, req, inst, emits>>

\* The query compiler compiles the ConcatNull against a connection.
ConcatEmit ==
    /\ cn.pc = "built"
    /\ Len(cn.emits) < MaxEmits
    /\ \E v \in Vendors :
          LET r == ConcatNull_compile(cn.self, ConcatNullClass, v)
          IN  cn' = [cn EXCEPT !.self = r.self,
                               !.emits = Append(@, [vendor |-> v, result |-> r.result])]
    /\ UNCHANGED <<ambient, cls, pc, req, inst, emits>>

ConcatDiscard ==
    /\ cn.pc = "built"
    /\ cn' = ConcatIdle
    /\ UNCHANGED <<ambient, cls, pc, req, inst, emits>>

\* One caller, which builds and emits a StringAgg or a ConcatNull.
Init ==
    InitWith({1}, Vendors)

Next ==
    \/ Construct(1, AggExpressions, Delimiters)
    \/ Emit(1, Vendors)
    \/ Discard(1)
    \/ ConcatConstruct
    \/ ConcatEmit
    \/ ConcatDiscard

Spec ==
    Init /\ [][Next]_vars

\* Two callers, each with a StringAgg of its own, interleaved step by step.
InitConc ==
    InitWith({1, 2}, ConcVendors)

NextConc ==
    \E t \in {1, 2} :
        \/ Construct(t, ConcExpressions, ConcDelimiters)
        \/ Emit(t, ConcVendors)
        \/ Discard(t)

SpecConc ==
    InitConc /\ [][NextConc]_vars

(***************************************************************************)
(* What the backends make of the emitted text.                             *)
(***************************************************************************)
\* The backends the file names as supported.
SupportedVendors ==
    { Vendor_postgresql, Vendor_mysql, Vendor_sqlite }

\* The backend names that hold "postgresql" in some letter case.
PostgresNames ==
    { Vendor_postgresql, Vendor_PostgreSQL }

\* The place of the first occurrence of sub in s (0: none).
RECURSIVE IndexFrom(_, _, _)
IndexFrom(s, sub, i) ==
    IF i + Len(sub) - 1 > Len(s) THEN 0
    ELSE IF \A k \in 1..Len(sub) : s[i + k - 1] = sub[k] THEN i
    ELSE IndexFrom(s, sub, i + 1)

\* The second argument of an emitted call f(<first>, <second>): the text from
\* the first ", " to the closing parenthesis.
SecondArgument(sql) ==
    SubSeq(sql, IndexFrom(sql, CommaJoiner, 1) + 2, Len(sql) - 1)

\* The body of a standard SQL string literal: every quote in it is doubled.
RECURSIVE SqlBodyOk(_)
SqlBodyOk(b) ==
    IF b = <<>> THEN TRUE
    ELSE IF Head(b) = "'"
         THEN Len(b) >= 2 /\ b[2] = "'" /\ SqlBodyOk(SubSeq(b, 3, Len(b)))
         ELSE SqlBodyOk(Tail(b))

RECURSIVE SqlBodyValue(_)
SqlBodyValue(b) ==
    IF b = <<>> THEN <<>>
    ELSE IF Head(b) = "'"
         THEN << "'" >> \o SqlBodyValue(SubSeq(b, 3, Len(b)))
         ELSE << Head(b) >> \o SqlBodyValue(Tail(b))

\* lit is one well-formed single-quoted SQL string literal.
SqlLiteralOk(lit) ==
    /\ Len(lit) >= 2
    /\ lit[1] = "'"
    /\ lit[Len(lit)] = "'"
    /\ SqlBodyOk(SubSeq(lit, 2, Len(lit) - 1))

SqlLiteralValue(lit) ==
    SqlBodyValue(SubSeq(lit, 2, Len(lit) - 1))

\* The separator an emitted aggregate joins with: the value of its second
\* argument when it has one, the backend's default "," when it has none
\* (GROUP_CONCAT(x) on MySQL, group_concat(x) on SQLite).
SeparatorOf(sql) ==
    IF IndexFrom(sql, CommaJoiner, 1) = 0 THEN [ok |-> TRUE, value |-> << "," >>]
    ELSE IF SqlLiteralOk(SecondArgument(sql))
         THEN [ok |-> TRUE, value |-> SqlLiteralValue(SecondArgument(sql))]
         ELSE [ok |-> FALSE, value |-> <<>>]

\* The string the backend aggregates a group of values into.
Aggregated(sql, values) ==
    [ok |-> SeparatorOf(sql).ok, value |-> Join(SeparatorOf(sql).value, values)]

\* The values of a ConcatNull's arguments, in order.
ValuesOf(args) ==
    [i \in 1..Len(args) |-> args[i].value]

AnyNull(values) ==
    \E i \in 1..Len(values) : values[i].null

RECURSIVE ConcatSkippingNulls(_)
ConcatSkippingNulls(values) ==
    IF values = <<>> THEN <<>>
    ELSE (IF Head(values).null THEN <<>> ELSE Head(values).str)
         \o ConcatSkippingNulls(Tail(values))

\* CONCAT(...) as the backend evaluates it: MySQL returns NULL when an argument
\* is NULL; PostgreSQL ignores NULL arguments.
ConcatCallValue(vendor, values) ==
    IF vendor = Vendor_mysql /\ AnyNull(values) THEN Null
    ELSE Str(ConcatSkippingNulls(values))

\* a || b || ...: NULL when an operand is NULL.
ConcatOperatorValue(values) ==
    IF AnyNull(values) THEN Null ELSE Str(ConcatSkippingNulls(values))

\* The value of an emitted ConcatNull fragment on the backend.
ConcatValue(vendor, sql, values) ==
    IF StartsWith(sql, CONCAT \o << "(" >>)
    THEN ConcatCallValue(vendor, values)
    ELSE ConcatOperatorValue(values)

Callers ==
    DOMAIN pc

EmitIndexes(t) ==
    1..Len(emits[t])

\* What caller t's StringAgg(...) and its emission against vendor v give when
\* nothing else runs.
AloneInit(t) ==
    StringAgg_init(StringAggClass, req[t].expression, req[t].distinct,
                   req[t].delimiter, ambient)

AloneEmit(t, v) ==
    StringAgg_as_sql(AloneInit(t).self, StringAggClass, v).result

(***************************************************************************)
(* The claims.                                                             *)
(***************************************************************************)
\* C1: on every supported backend, ConcatNull(a, b) with a or b NULL emits a
\* fragment that evaluates to NULL on that backend.
C1_NullPropagates ==
    \A i \in 1..Len(cn.emits) :
        ( /\ cn.emits[i].vendor \in SupportedVendors
          /\ Len(cn.args) = 2
          /\ AnyNull(ValuesOf(cn.args)) )
        => /\ cn.emits[i].result.status = "ok"
           /\ ConcatValue(cn.emits[i].vendor, cn.emits[i].result.sql,
                          ValuesOf(cn.args)) = Null

\* C2: on every supported backend, a StringAgg built and emitted with delimiter
\* ";" aggregates the values en, es, fr into "en;es;fr": the caller's delimiter,
\* not the backend's default, separates the values.
C2_DelimiterJoins ==
    \A t \in Callers : \A i \in EmitIndexes(t) :
        ( /\ req[t].delimiter = << ";" >>
          /\ emits[t][i].vendor = ambient
          /\ ambient \in SupportedVendors )
        => /\ emits[t][i].result.status = "ok"
           /\ Aggregated(emits[t][i].result.sql,
                         << <<"e", "n">>, <<"e", "s">>, <<"f", "r">> >>)
              = [ok |-> TRUE,
                 value |-> << "e", "n", ";", "e", "s", ";", "f", "r" >>]

\* C3: StringAgg(expression, distinct=True) is built and every fragment it emits
\* holds "DISTINCT " in front of the expression; with distinct=False no
\* fragment holds "DISTINCT ".
C3_DistinctEmitted ==
    \A t \in Callers :
        pc[t] # "idle" =>
            /\ pc[t] = "built"
            /\ \A i \in EmitIndexes(t) :
                  /\ emits[t][i].result.status = "ok"
                  /\ req[t].distinct <=>
                        Contains(emits[t][i].result.sql,
                                 DISTINCT_ \o req[t].expression.sql)
                  /\ req[t].distinct <=> Contains(emits[t][i].result.sql, DISTINCT_)

\* C4: against a PostgreSQL connection as_sql returns exactly the parameters of
\* the compiled source expression, in order: the delimiter adds none.
C4_PostgresParams ==
    \A t \in Callers : \A i \in EmitIndexes(t) :
        emits[t][i].vendor \in PostgresNames
        => /\ emits[t][i].result.status = "ok"
           /\ emits[t][i].result.params = req[t].expression.params

C4_Witness ==
    \E i \in EmitIndexes(1) :
        /\ emits[1][i].vendor = Vendor_postgresql
        /\ req[1].expression = ExprValue
        /\ req[1].delimiter = << ";" >>
        /\ emits[1][i].result.params = << "a" >>

\* C5: against a PostgreSQL connection, a delimiter holding a single quote is
\* emitted as one well-formed single-quoted SQL string literal whose value is
\* the delimiter.
C5_QuoteEscaped ==
    \A t \in Callers : \A i \in EmitIndexes(t) :
        ( /\ emits[t][i].vendor \in PostgresNames
          /\ Contains(req[t].delimiter, << "'" >>) )
        => /\ emits[t][i].result.status = "ok"
           /\ SqlLiteralOk(SecondArgument(emits[t][i].result.sql))
           /\ SqlLiteralValue(SecondArgument(emits[t][i].result.sql))
              = req[t].delimiter

\* C6: for two or more expressions ConcatNull emits e1 || e2 || ... || en with
\* no wrapper on SQLite and CONCAT(e1, e2, ..., en) on every other backend, the
\* expressions and their parameters in the caller's order.
C6_ConcatForms ==
    \A i \in 1..Len(cn.emits) :
        Len(cn.args) >= 2
        => LET sqls == [k \in 1..Len(cn.args) |-> cn.args[k].sql]
               params == Extend([k \in 1..Len(cn.args) |-> cn.args[k].params])
               out == cn.emits[i].result
           IN  /\ out.status = "ok"
               /\ out.params = params
               /\ out.sql = IF cn.emits[i].vendor = Vendor_sqlite
                            THEN Join(PipeJoiner, sqls)
                            ELSE CONCAT \o << "(" >> \o Join(CommaJoiner, sqls)
                                 \o << ")" >>

C6_Witness ==
    /\ cn.args = << ExprValue, ExprCol, ExprValue >>
    /\ Len(cn.emits) = 2
    /\ cn.emits[1].vendor = Vendor_sqlite
    /\ Flat(cn.emits[1].result.sql) = "%s || x || %s"
    /\ cn.emits[2].vendor = Vendor_postgresql
    /\ Flat(cn.emits[2].result.sql) = "CONCAT(%s, x, %s)"

\* C7: a StringAgg built and emitted under the same backend is a STRING_AGG call
\* on (<expr>)::TEXT when the backend's name holds "postgresql" in any letter
\* case, and GROUP_CONCAT(<expr>) with no ::TEXT otherwise.
C7_DialectByName ==
    \A t \in Callers : \A i \in EmitIndexes(t) :
        emits[t][i].vendor = ambient
        => LET out == emits[t][i].result
               e == req[t].expression.sql
           IN  /\ out.status = "ok"
               /\ IF ambient \in PostgresNames
                  THEN StartsWith(out.sql,
                                  STRING_AGG \o << "(", "(" >> \o e \o CastText
                                  \o CommaJoiner)
                  ELSE /\ out.sql = GROUP_CONCAT \o << "(" >> \o e \o << ")" >>
                       /\ ~Contains(out.sql, CastText)

C7_Witness ==
    /\ ambient = Vendor_PostgreSQL
    /\ Len(emits[1]) = 1
    /\ emits[1][1].vendor = Vendor_PostgreSQL
    /\ req[1].delimiter = << ";" >>
    /\ Flat(emits[1][1].result.sql) = "STRING_AGG((x)::TEXT, ';')"

\* C8: whatever the backends at construction and at emission, the fragment is
\* STRING_AGG with the PostgreSQL arguments when the emission backend is
\* PostgreSQL and GROUP_CONCAT with the generic arguments otherwise.
C8_DialectsAgree ==
    \A t \in Callers : \A i \in EmitIndexes(t) :
        LET out == emits[t][i].result
        IN  /\ out.status = "ok"
            /\ IF emits[t][i].vendor \in PostgresNames
               THEN /\ StartsWith(out.sql, STRING_AGG \o << "(", "(" >>)
                    /\ Contains(out.sql, CastText \o CommaJoiner)
               ELSE /\ StartsWith(out.sql, GROUP_CONCAT \o << "(" >>)
                    /\ ~Contains(out.sql, CastText)
                    /\ ~Contains(out.sql, CommaJoiner)

\* C9: emission leaves the instance as construction made it, and a later
\* emission against a backend returns what the first one against it returned.
C9_EmissionFrame ==
    /\ \A t \in Callers :
          pc[t] = "built" =>
              /\ inst[t] = AloneInit(t).self
              /\ \A i \in EmitIndexes(t) : \A j \in EmitIndexes(t) :
                    emits[t][i].vendor = emits[t][j].vendor
                    => emits[t][i].result = emits[t][j].result
    /\ cn.pc = "built" =>
          /\ cn.self = ConcatNull_init(cn.args)
          /\ \A i \in 1..Len(cn.emits) : \A j \in 1..Len(cn.emits) :
                cn.emits[i].vendor = cn.emits[j].vendor
                => cn.emits[i].result = cn.emits[j].result

C9_Witness ==
    /\ Len(emits[1]) = 2
    /\ emits[1][1].vendor = Vendor_postgresql
    /\ emits[1][2].vendor = Vendor_postgresql
    /\ req[1].delimiter = << "'" >>
    /\ emits[1][2].result.status = "ok"

\* C10: under every interleaving of two callers the class attributes of
\* StringAgg stay as the class body sets them, and each caller gets the
\* outcome and the fragments it gets running alone.
C10_NoInterference ==
    /\ cls = StringAggClass
    /\ \A t \in Callers :
          /\ pc[t] = "built" => AloneInit(t).raised = ""
          /\ pc[t] = "failed" => AloneInit(t).raised = "TypeError"
          /\ \A i \in EmitIndexes(t) :
                emits[t][i].result = AloneEmit(t, emits[t][i].vendor)

C10_Witness ==
    /\ Len(emits[1]) = 1
    /\ Len(emits[2]) = 1
    /\ emits[1][1].vendor = Vendor_postgresql
    /\ emits[2][1].vendor = Vendor_mysql
    /\ req[1].delimiter = << ";" >>
    /\ req[2].delimiter = << "," >>
    /\ Flat(emits[1][1].result.sql) # Flat(emits[2][1].result.sql)

=============================================================================
